---- MODULE Spec2Model ----
(***************************************************************************)
(* A model of bkpt, an interactive ptrace debugger: the breakpoint patch   *)
(* (src/src/breakpoint.rs), the command loop and dispatcher                *)
(* (src/src/debugger.rs, src/src/main.rs) and the traced process as the    *)
(* tracing calls see it.                                                   *)
(*                                                                         *)
(* A machine word is a tuple of WordBytes bytes, least significant first   *)
(* (x86-64 is little endian); bit operations act on it byte by byte.       *)
(***************************************************************************)
EXTENDS Integers, Sequences, FiniteSets, TLC

VARIABLES
    pc,           \* where the debugger is: "run_wait", "prompt", "cont_wait", "exit", "panic", "api"
    child,        \* the traced process: "starting", "stopped", "running", "exited"
    regs,         \* the traced process's register file (user_regs_struct)
    mem,          \* the traced process's mapped memory, byte by byte
    mem0,         \* the memory image the traced program was loaded with
    breakpoints,  \* Debugger.breakpoints: address |-> Breakpoint
    line,         \* the line the dispatcher handled last
    parsed,       \* that line as parsed: the command dispatched
    printed,      \* what the dispatcher printed for it
    calls,        \* the tracing calls the last operation issued, in order
    stopAt,       \* {a} when the trap byte of the enabled breakpoint at a caused the last stop, else {}
    lastExec,     \* the instruction the traced process executed last: <<address, byte>>, or << >>
    api,          \* the Breakpoint methods a client has called so far, in order
    nops          \* commands handled so far

vars == <<pc, child, regs, mem, mem0, breakpoints, line, parsed, printed, calls, stopAt, lastExec, api, nops>>

----------------------------------------------------------------------------
(* Bounds of the model *)

\* Bytes of traced memory that are mapped: addresses 0 .. MemSize-1.
MemSize == 12
\* Commands handled in one behaviour.
MaxOps == 4
\* Calls of the Breakpoint methods in one behaviour of the method-level specification.
MaxApi == 3

(* Program constants *)

\* Bytes in the word PTRACE_PEEKDATA / PTRACE_POKEDATA transfer (c_long, isize).
WordBytes == 8
\* Breakpoint::BKPT_OPCODE, int3.
BKPT_OPCODE == 204
\* Breakpoint::OPCODE_BITMASK.
OPCODE_BITMASK == 255

Byte == 0..255
Addrs == 0..(MemSize - 1)

----------------------------------------------------------------------------
(* isize arithmetic on words *)

RECURSIVE BitAnd(_, _)
BitAnd(x, y) ==
    IF x = 0 \/ y = 0 THEN 0
    ELSE (x % 2) * (y % 2) + 2 * BitAnd(x \div 2, y \div 2)

RECURSIVE BitOr(_, _)
BitOr(x, y) ==
    IF x = 0 THEN y
    ELSE IF y = 0 THEN x
    ELSE (IF x % 2 = 1 \/ y % 2 = 1 THEN 1 ELSE 0) + 2 * BitOr(x \div 2, y \div 2)

\* A small non-negative isize constant as a word.
WordOf(n) == [i \in 1..WordBytes |-> IF i = 1 THEN n ELSE 0]

WAnd(v, w) == [i \in 1..WordBytes |-> BitAnd(v[i], w[i])]
WOr(v, w) == [i \in 1..WordBytes |-> BitOr(v[i], w[i])]
WNot(w) == [i \in 1..WordBytes |-> 255 - w[i]]

----------------------------------------------------------------------------
(* The tracing calls on memory *)

\* An address the traced process has a whole word mapped at.
Mapped(a) == a \in Int /\ a >= 0 /\ a + WordBytes <= MemSize

\* Tracing requests succeed only on a process that is in a trace-stop
\* (ESRCH otherwise).
Traceable == child = "stopped"

\* ptrace::read: PTRACE_PEEKDATA, the word at address a.
PeekData(m, a) == [i \in 1..WordBytes |-> m[a + i - 1]]

\* ptrace::write: PTRACE_POKEDATA, the word `data` stored at address a.
PokeData(m, a, data) ==
    [x \in Addrs |-> IF x >= a /\ x < a + WordBytes THEN data[x - a + 1] ELSE m[x]]

\* Addresses of a local of the debugger (its stack), as `&local as *const _`
\* yields them: 8-aligned, otherwise whatever the run gives.
LocalAddrs ==
    { <<8, 204, 60, 90, 253, 127, 0, 0>>,
      <<200, 17, 60, 90, 253, 127, 0, 0>> }

\* What `&self.addr as AddressType` can denote in the traced process's address
\* space: any address, mapped there or not.  A mapped address, the address
\* breakpoints are put at, and one whose word is not mapped stand for them.
FieldAddrs == {0, 2, MemSize - 1}

----------------------------------------------------------------------------
(* Breakpoint (src/src/breakpoint.rs) *)

\* Breakpoint::new
BreakpointNew(addr) ==
    [addr |-> addr, enabled |-> FALSE, old_instruction |-> WordOf(0)]

\* Breakpoint::enable. `local` is the address of the local `bkpt`, which is
\* what the code hands to ptrace::write as the word to store.
\* The result: the breakpoint, the memory, the calls issued, and whether an
\* unwrap() panicked.
Enable(bp, m, local) ==
    LET ptr == bp.addr IN
    IF ~(Traceable /\ Mapped(ptr))
    THEN [bp |-> bp, mem |-> m, panic |-> TRUE,
          calls |-> << <<"peek", ptr>> >>]
    ELSE
        LET data == PeekData(m, ptr)
            old_int == WAnd(data, WordOf(OPCODE_BITMASK))
            bkpt == WOr(WAnd(data, WNot(WordOf(OPCODE_BITMASK))), WordOf(BKPT_OPCODE))
        IN [bp |-> [bp EXCEPT !.old_instruction = old_int, !.enabled = TRUE],
            mem |-> PokeData(m, ptr, local),
            panic |-> FALSE,
            calls |-> << <<"peek", ptr>>, <<"poke", ptr>> >>]

\* Breakpoint::disable. `ptr` is the address of the field self.addr, `local`
\* the address of the local `prev_data`.
Disable(bp, m, ptr, local) ==
    IF ~(Traceable /\ Mapped(ptr))
    THEN [bp |-> bp, mem |-> m, panic |-> TRUE,
          calls |-> << <<"peek", ptr>> >>]
    ELSE
        LET data == PeekData(m, ptr)
            prev_data == WOr(WAnd(data, WNot(WordOf(OPCODE_BITMASK))), bp.old_instruction)
        IN [bp |-> [bp EXCEPT !.old_instruction = WordOf(0), !.enabled = FALSE],
            mem |-> PokeData(m, ptr, local),
            panic |-> FALSE,
            calls |-> << <<"peek", ptr>>, <<"poke", ptr>> >>]

----------------------------------------------------------------------------
(* The traced program *)

\* First instruction of the traced program, where the exec trace-stop leaves it.
Entry == 0

\* The image the traced program is loaded with: one-byte instructions, all
\* different, none of them the trap opcode.
Program == [a \in Addrs |-> 64 + a]

\* The register file, by the names of user_regs_struct.
RegisterKind ==
    { "rax", "rbx", "rcx", "rdx", "rdi", "rsi", "rbp", "rsp",
      "r8", "r9", "r10", "r11", "r12", "r13", "r14", "r15",
      "ss", "cs", "ds", "es", "fs", "gs", "fs_base", "gs_base",
      "orig_rax", "rip", "eflags" }

InitRegs == [r \in RegisterKind |-> IF r = "rip" THEN Entry ELSE 0]

----------------------------------------------------------------------------
(* Text: a line is a sequence of characters *)

SP == " "

Take(s, n) == SubSeq(s, 1, n)
Drop(s, n) == SubSeq(s, n + 1, Len(s))

\* Position of the first space of s, 0 when it has none.
IndexOfSpace(s) ==
    IF \E i \in 1..Len(s) : s[i] = SP
    THEN CHOOSE i \in 1..Len(s) : s[i] = SP /\ \A j \in 1..(i - 1) : s[j] # SP
    ELSE 0

DigitChars == <<"0", "1", "2", "3", "4", "5", "6", "7", "8", "9">>
HexChars == DigitChars \o <<"a", "b", "c", "d", "e", "f">>
HexUpper == DigitChars \o <<"A", "B", "C", "D", "E", "F">>

IsDigit(c) == \E i \in 1..Len(DigitChars) : DigitChars[i] = c
IsHexDigit(c) == \E i \in 1..Len(HexChars) : HexChars[i] = c \/ HexUpper[i] = c
HexVal(c) == (CHOOSE i \in 1..Len(HexChars) : HexChars[i] = c \/ HexUpper[i] = c) - 1

\* How many spaces, and how many decimal digits, s starts with.
RECURSIVE LeadingSpaces(_)
LeadingSpaces(s) ==
    IF s = << >> \/ s[1] # SP THEN 0 ELSE 1 + LeadingSpaces(Tail(s))

RECURSIVE LeadingDigits(_)
LeadingDigits(s) ==
    IF s = << >> \/ ~IsDigit(s[1]) THEN 0 ELSE 1 + LeadingDigits(Tail(s))

\* str::parse::<isize> on a run of decimal digits (the lines of the model are
\* too short to overflow an isize).
RECURSIVE Decimal(_)
Decimal(s) ==
    IF s = << >> THEN 0 ELSE 10 * Decimal(Take(s, Len(s) - 1)) + HexVal(s[Len(s)])

\* isize::from_str_radix(a, 16) on the digits, sign taken off.
RECURSIVE Hex(_)
Hex(s) ==
    IF s = << >> THEN 0 ELSE 16 * Hex(Take(s, Len(s) - 1)) + HexVal(s[Len(s)])

----------------------------------------------------------------------------
(* The parser of src/src/debugger.rs (nom combinators).  A result is        *)
(* [ok, rem, out]: Ok((rem, out)) or, with ok = FALSE, an Err.              *)

(* The words the parser matches on *)
C_c == <<"c">>
C_cont == <<"c", "o", "n", "t">>
C_continue == <<"c", "o", "n", "t", "i", "n", "u", "e">>
C_b == <<"b">>
C_br == <<"b", "r">>
C_break == <<"b", "r", "e", "a", "k">>
C_bkpt == <<"b", "k", "p", "t">>
C_r == <<"r">>
C_reg == <<"r", "e", "g">>
C_register == <<"r", "e", "g", "i", "s", "t", "e", "r">>
C_ls == <<"l", "s">>
C_list == <<"l", "i", "s", "t">>
C_set == <<"s", "e", "t">>
C_unset == <<"u", "n", "s", "e", "t">>
C_read == <<"r", "e", "a", "d">>
C_w == <<"w">>
C_Write == <<"W", "r", "i", "t", "e">>

\* take_until(" ")
until_whitespace(input) ==
    LET i == IndexOfSpace(input) IN
    IF i = 0
    THEN [ok |-> FALSE, rem |-> input, out |-> << >>]
    ELSE [ok |-> TRUE, rem |-> Drop(input, i - 1), out |-> Take(input, i - 1)]

until_whitespace_or_eof(input) ==
    LET r == until_whitespace(input) IN
    IF r.ok THEN r ELSE [ok |-> TRUE, rem |-> << >>, out |-> r.rem]

\* pair(space1, until_whitespace_or_eof): the token after at least one space.
pair_space1_token(input) ==
    LET n == LeadingSpaces(input) IN
    IF n = 0
    THEN [ok |-> FALSE, rem |-> input, out |-> << >>]
    ELSE until_whitespace_or_eof(Drop(input, n))

\* map_res(digit1, |s| s.parse::<isize>())
parse_number(input) ==
    LET n == LeadingDigits(input) IN
    IF n = 0
    THEN [ok |-> FALSE, rem |-> input, out |-> 0]
    ELSE [ok |-> TRUE, rem |-> Drop(input, n), out |-> Decimal(Take(input, n))]

\* impl From<&str> for Command (debugger.rs)
CommandFrom(cmd) ==
    CASE cmd \in {C_c, C_cont, C_continue} -> "Continue"
      [] cmd \in {C_b, C_br, C_break, C_bkpt} -> "Break"
      [] cmd \in {C_r, C_reg, C_register} -> "Register"
      [] OTHER -> "Unknown"

\* impl From<&str> for Command (main.rs): no register command there.
CommandFromMain(cmd) ==
    CASE cmd \in {C_c, C_cont, C_continue} -> "Continue"
      [] cmd \in {C_b, C_br, C_break, C_bkpt} -> "Break"
      [] OTHER -> "Unknown"

\* impl From<&str> for BreakpointOp
BreakpointOpFrom(op) ==
    CASE op \in {C_ls, C_list} -> "List"
      [] op = C_set -> "Set"
      [] op = C_unset -> "Unset"
      [] OTHER -> "Unknown"

\* impl From<(&str, Option<isize>)> for RegisterOp; "panic" is the unwrap()
\* of a missing value.
RegisterOpFrom(op, hasValue) ==
    CASE op \in {C_r, C_read} -> "Read"
      [] op \in {C_w, C_Write} -> IF hasValue THEN "Write" ELSE "panic"
      [] OTHER -> "Unknown"

parse_cmd(input) ==
    LET r == until_whitespace_or_eof(input) IN
    [ok |-> TRUE, rem |-> r.rem, out |-> CommandFrom(r.out)]

\* The names Register::from_selector knows, as typed.
RegisterNames ==
    [ r \in RegisterKind |->
        CASE r = "orig_rax" -> <<"o", "r", "i", "g", "_", "r", "a", "x">>
          [] r = "rip" -> <<"r", "i", "p">>
          [] r = "rax" -> <<"r", "a", "x">>
          [] r = "rdx" -> <<"r", "d", "x">>
          [] r = "rcx" -> <<"r", "c", "x">>
          [] r = "rbx" -> <<"r", "b", "x">>
          [] r = "rsi" -> <<"r", "s", "i">>
          [] r = "rdi" -> <<"r", "d", "i">>
          [] r = "rbp" -> <<"r", "b", "p">>
          [] r = "rsp" -> <<"r", "s", "p">>
          [] r = "r8" -> <<"r", "8">>
          [] r = "r9" -> <<"r", "9">>
          [] r = "r10" -> <<"r", "1", "0">>
          [] r = "r11" -> <<"r", "1", "1">>
          [] r = "r12" -> <<"r", "1", "2">>
          [] r = "r13" -> <<"r", "1", "3">>
          [] r = "r14" -> <<"r", "1", "4">>
          [] r = "r15" -> <<"r", "1", "5">>
          [] r = "eflags" -> <<"e", "f", "l", "a", "g", "s">>
          [] r = "es" -> <<"e", "s">>
          [] r = "cs" -> <<"c", "s">>
          [] r = "ss" -> <<"s", "s">>
          [] r = "ds" -> <<"d", "s">>
          [] r = "fs" -> <<"f", "s">>
          [] r = "gs" -> <<"g", "s">>
          [] r = "fs_base" -> <<"f", "s", "_", "b", "a", "s", "e">>
          [] r = "gs_base" -> <<"g", "s", "_", "b", "a", "s", "e">> ]

\* Register::from_selector(RegisterSelector::Name(reg)): the register, or
\* "unreachable" where the match falls through to unreachable!().
from_selector_name(reg) ==
    IF \E r \in RegisterKind : RegisterNames[r] = reg
    THEN CHOOSE r \in RegisterKind : RegisterNames[r] = reg
    ELSE "unreachable"

\* A parsed command, as the dispatcher acts on it.
Cmd(c, sub, reg, num) == [cmd |-> c, sub |-> sub, reg |-> reg, num |-> num]
NoCmd == Cmd("", "", "", 0)

\* A printed line: its text and the number formatted into it.
Out(text, num) == [text |-> text, num |-> num]
NoOut == Out("", 0)

\* The address parse_bkpt_cmd gives every Set command.
FixedSetAddress == 4660

\* `num as u8`
AsU8(n) == n % 256

parse_bkpt_cmd(input) ==
    LET p == pair_space1_token(input) IN
    IF ~p.ok THEN [ok |-> FALSE, out |-> NoCmd]
    ELSE
        LET op == BreakpointOpFrom(p.out) IN
        CASE op = "Set" ->
                LET a == pair_space1_token(p.rem) IN
                IF ~a.ok THEN [ok |-> FALSE, out |-> NoCmd]
                ELSE [ok |-> TRUE, out |-> Cmd("Break", "Set", "", FixedSetAddress)]
          [] op = "Unset" ->
                LET a == pair_space1_token(p.rem) IN
                IF ~a.ok THEN [ok |-> FALSE, out |-> NoCmd]
                ELSE LET n == parse_number(a.out) IN
                     IF ~n.ok THEN [ok |-> FALSE, out |-> NoCmd]
                     ELSE [ok |-> TRUE, out |-> Cmd("Break", "Unset", "", AsU8(n.out))]
          [] op = "List" -> [ok |-> TRUE, out |-> Cmd("Break", "List", "", 0)]
          [] OTHER -> [ok |-> TRUE, out |-> Cmd("Break", "Unknown", "", 0)]

\* ok = FALSE: an Err, or a panic inside (the unwrap() in RegisterOp::from,
\* the unreachable!() in from_selector).
parse_reg_cmd(input) ==
    LET p == pair_space1_token(input) IN
    IF ~p.ok THEN [ok |-> FALSE, out |-> NoCmd]
    ELSE
        LET r == pair_space1_token(p.rem) IN
        IF ~r.ok THEN [ok |-> FALSE, out |-> NoCmd]
        ELSE
            LET hasRem == r.rem # << >>
                s == LeadingSpaces(r.rem)
                v == parse_number(Drop(r.rem, s))
            IN
            IF hasRem /\ (s = 0 \/ ~v.ok) THEN [ok |-> FALSE, out |-> NoCmd]
            ELSE
                LET op == RegisterOpFrom(p.out, hasRem)
                    reg == from_selector_name(r.out)
                IN
                IF op = "panic" \/ reg = "unreachable"
                THEN [ok |-> FALSE, out |-> NoCmd]
                ELSE [ok |-> TRUE,
                      out |-> Cmd("Register", op, reg, IF hasRem THEN v.out ELSE 0)]

\* The lines typed at the prompt.
Lines ==
    {
      <<"c">>,   \* c
      <<"c", "o", "n", "t", "i", "n", "u", "e">>,   \* continue
      <<"b">>,   \* b
      <<"b", "r", "e", "a", "k", " ", "0", "x", "0">>,   \* break 0x0
      <<"b", "r", "e", "a", "k", " ", "0", "x", "1">>,   \* break 0x1
      <<"b", "r", "e", "a", "k", " ", "0", "x", "2">>,   \* break 0x2
      <<"b", "r", "e", "a", "k", " ", "0", "x", "a">>,   \* break 0xa
      <<"b", "r", "e", "a", "k", " ", "1", "2">>,   \* break 12
      <<"b", " ", "s", "e", "t", " ", "0", "x", "2">>,   \* b set 0x2
      <<"b", " ", "u", "n", "s", "e", "t", " ", "1">>,   \* b unset 1
      <<"b", " ", "l", "s">>,   \* b ls
      <<"b", "r", "e", "a", "k", "p", "o", "i", "n", "t", " ", "u", "n", "s", "e", "t", " ", "1">>,   \* breakpoint unset 1
      <<"r", " ", "r", "e", "a", "d", " ", "r", "a", "x">>,   \* r read rax
      <<"r", " ", "r", " ", "r", "i", "p">>,   \* r r rip
      <<"r", " ", "w", " ", "r", "a", "x", " ", "5">>,   \* r w rax 5
      <<"r", " ", "w", " ", "r", "i", "p", " ", "1">>,   \* r w rip 1
      <<"r", " ", "w", "r", "i", "t", "e", " ", "r", "a", "x", " ", "5">>,   \* r write rax 5
      <<"r", " ", "w", " ", "r", "b", "x">>,   \* r w rbx
      <<"r", " ", "r", "e", "a", "d", " ", "f", "o", "o">>,   \* r read foo
      <<"x", "y", "z">>,   \* xyz
      <<"r", "e", "g", "i", "s", "t", "e", "r", " ", "w", "r", "i", "t", "e", " ", "r", "a", "x", " ", "4", "2">>,   \* register write rax 42
      <<"r", " ", "f", "o", "o">>,   \* r foo
      <<"b", "r", "e", "a", "k", "p", "o", "i", "n", "t", " ", "s", "e", "t", " ", "0", "x", "2">>,   \* breakpoint set 0x2
      <<"b", " ", "u", "n", "s", "e", "t", " ", "3", "0", "0">>   \* b unset 300
    }

----------------------------------------------------------------------------
(* The Breakpoint methods, called by a client on breakpoints of a stopped   *)
(* process: the method-level specification SpecBp.                          *)

\* Where the client's breakpoints go: a mapped address, and one whose word
\* runs past the mapping.
ApiAddrs == {2, MemSize - 2}

InitBp ==
    /\ pc = "api"
    /\ child = "stopped"
    /\ regs = InitRegs
    /\ mem0 \in { [Program EXCEPT ![2] = b] : b \in Byte }
    /\ mem = mem0
    /\ breakpoints = << >>
    /\ line = << >>
    /\ parsed = NoCmd
    /\ printed = NoOut
    /\ calls = << >>
    /\ stopAt = {}
    /\ lastExec = << >>
    /\ api = << >>
    /\ nops = 0

ApiFrame == UNCHANGED <<child, regs, mem0, line, parsed, printed, stopAt, lastExec, nops>>

\* let mut bp = Breakpoint::new(pid, Location::Address(a));
BpNew ==
    /\ pc = "api" /\ Len(api) < MaxApi
    /\ \E a \in ApiAddrs :
        /\ a \notin DOMAIN breakpoints
        /\ breakpoints' = [x \in DOMAIN breakpoints \cup {a} |->
                              IF x = a THEN BreakpointNew(a) ELSE breakpoints[x]]
        /\ api' = Append(api, <<"new", a>>)
    /\ calls' = << >>
    /\ UNCHANGED <<pc, mem>>
    /\ ApiFrame

\* bp.enable();
BpEnable ==
    /\ pc = "api" /\ Len(api) < MaxApi
    /\ \E a \in DOMAIN breakpoints, local \in LocalAddrs :
        LET r == Enable(breakpoints[a], mem, local) IN
        /\ breakpoints' = [breakpoints EXCEPT ![a] = r.bp]
        /\ mem' = r.mem
        /\ calls' = r.calls
        /\ pc' = IF r.panic THEN "panic" ELSE "api"
        /\ api' = Append(api, <<"enable", a>>)
    /\ ApiFrame

\* bp.disable();
BpDisable ==
    /\ pc = "api" /\ Len(api) < MaxApi
    /\ \E a \in DOMAIN breakpoints, ptr \in FieldAddrs, local \in LocalAddrs :
        LET r == Disable(breakpoints[a], mem, ptr, local) IN
        /\ breakpoints' = [breakpoints EXCEPT ![a] = r.bp]
        /\ mem' = r.mem
        /\ calls' = r.calls
        /\ pc' = IF r.panic THEN "panic" ELSE "api"
        /\ api' = Append(api, <<"disable", a>>)
    /\ ApiFrame

NextBp == BpNew \/ BpEnable \/ BpDisable

SpecBp == InitBp /\ [][NextBp]_vars

----------------------------------------------------------------------------
(* Claims about the Breakpoint methods, checked under SpecBp *)

\* C1: round trip of the patch. For every original byte b at the target
\* address, enable followed by disable on a freshly created breakpoint leaves
\* the traced process's memory exactly as it was before enable.
C1_RoundTripRestores ==
    \A a \in ApiAddrs :
        (api = << <<"new", a>>, <<"enable", a>>, <<"disable", a>> >> /\ pc = "api")
            => mem = mem0

\* C4: enabling an already-enabled breakpoint is rejected: the saved original
\* byte, the enabled flag and the traced memory are left as they were.
C4_EnableEnabledRejected ==
    [][\A a \in DOMAIN breakpoints :
          (breakpoints[a].enabled /\ api' = Append(api, <<"enable", a>>))
              => (breakpoints' = breakpoints /\ mem' = mem)]_vars

\* C9: disabling an already-disabled breakpoint is a no-op: it changes neither
\* the breakpoint's fields nor any byte of traced memory, and reports no error.
C9_DisableDisabledNoOp ==
    [][\A a \in DOMAIN breakpoints :
          (~breakpoints[a].enabled /\ api' = Append(api, <<"disable", a>>))
              => (breakpoints' = breakpoints /\ mem' = mem /\ pc' = "api")]_vars

----------------------------------------------------------------------------
(* Registers (src/src/register.rs) *)

\* Register::read: the field of user_regs_struct each kind is read from.
ReadField(kind) ==
    CASE kind = "rax" -> "rax"
      [] kind = "rbx" -> "rbx"
      [] kind = "rcx" -> "rcx"
      [] kind = "rdx" -> "rdx"
      [] kind = "rdi" -> "rdi"
      [] kind = "rsi" -> "rsi"
      [] kind = "rbp" -> "rbp"
      [] kind = "rsp" -> "rsp"
      [] kind = "r8" -> "r8"
      [] kind = "r9" -> "r9"
      [] kind = "r10" -> "r10"
      [] kind = "r11" -> "r11"
      [] kind = "r12" -> "r12"
      [] kind = "r13" -> "r13"
      [] kind = "r14" -> "r14"
      [] kind = "r15" -> "r15"
      [] kind = "ss" -> "ss"
      [] kind = "cs" -> "cs"
      [] kind = "ds" -> "ds"
      [] kind = "es" -> "es"
      [] kind = "fs" -> "fs"
      [] kind = "gs" -> "gs"
      [] kind = "fs_base" -> "fs_base"
      [] kind = "gs_base" -> "gs_base"
      [] kind = "orig_rax" -> "orig_rax"
      [] kind = "rip" -> "rip"
      [] kind = "eflags" -> "eflags"

\* Register::write: the field of user_regs_struct each kind is stored to.
WriteField(kind) ==
    CASE kind = "rax" -> "rax"
      [] kind = "rbx" -> "rbx"
      [] kind = "rcx" -> "rcx"
      [] kind = "rdx" -> "rdx"
      [] kind = "rdi" -> "rdi"
      [] kind = "rsi" -> "rsi"
      [] kind = "rbp" -> "rbp"
      [] kind = "rsp" -> "rsp"
      [] kind = "r8" -> "r8"
      [] kind = "r9" -> "r9"
      [] kind = "r10" -> "r10"
      [] kind = "r11" -> "r11"
      [] kind = "r12" -> "r12"
      [] kind = "r13" -> "r13"
      [] kind = "r14" -> "r14"
      [] kind = "r15" -> "r15"
      [] kind = "ss" -> "ss"
      [] kind = "cs" -> "cs"
      [] kind = "ds" -> "ds"
      [] kind = "es" -> "es"
      [] kind = "fs" -> "fs"
      [] kind = "gs" -> "gs"
      [] kind = "fs_base" -> "fs_base"
      [] kind = "gs_base" -> "gs_base"
      [] kind = "orig_rax" -> "orig_rax"
      [] kind = "rip" -> "rip"
      [] kind = "eflags" -> "eflags"

\* RegisterSelector
Dwarf(n) == [by |-> "Dwarf", dwarf |-> n, name |-> << >>]
Name(s) == [by |-> "Name", dwarf |-> 0, name |-> s]

\* RegisterDescriptor
RegisterDescriptor(dwarf_no, name) == [dwarf_no |-> dwarf_no, name |-> name]

\* One arm of the match in Register::from_selector:
\* Dwarf(dwarf) | Name(name) => Register { kind, descriptor }
Arm(dwarf, name, kind, descriptor) ==
    [dwarf |-> dwarf, name |-> name, kind |-> kind, descriptor |-> descriptor]

\* The arms of Register::from_selector, in the order the match tries them.
from_selector_arms ==
    <<
      Arm(-1, <<"o", "r", "i", "g", "_", "r", "a", "x">>, "orig_rax", RegisterDescriptor(-1, <<"o", "r", "i", "g", "_", "r", "a", "x">>)),
      Arm(-1, <<"r", "i", "p">>, "rip", RegisterDescriptor(-1, <<"r", "i", "p">>)),
      Arm(0, <<"r", "a", "x">>, "rax", RegisterDescriptor(0, <<"r", "a", "x">>)),
      Arm(1, <<"r", "d", "x">>, "rdx", RegisterDescriptor(1, <<"r", "d", "x">>)),
      Arm(2, <<"r", "c", "x">>, "rcx", RegisterDescriptor(2, <<"r", "c", "x">>)),
      Arm(3, <<"r", "b", "x">>, "rbx", RegisterDescriptor(3, <<"r", "b", "x">>)),
      Arm(4, <<"r", "s", "i">>, "rsi", RegisterDescriptor(4, <<"r", "s", "i">>)),
      Arm(5, <<"r", "d", "i">>, "rdi", RegisterDescriptor(5, <<"r", "d", "i">>)),
      Arm(6, <<"r", "b", "p">>, "rbp", RegisterDescriptor(6, <<"r", "b", "p">>)),
      Arm(7, <<"r", "s", "p">>, "rsp", RegisterDescriptor(7, <<"r", "s", "p">>)),
      Arm(8, <<"r", "8">>, "r8", RegisterDescriptor(8, <<"r", "8">>)),
      Arm(9, <<"r", "9">>, "r9", RegisterDescriptor(9, <<"r", "9">>)),
      Arm(10, <<"r", "1", "0">>, "r10", RegisterDescriptor(10, <<"r", "1", "0">>)),
      Arm(11, <<"r", "1", "1">>, "r11", RegisterDescriptor(11, <<"r", "1", "1">>)),
      Arm(12, <<"r", "1", "2">>, "r12", RegisterDescriptor(12, <<"r", "1", "2">>)),
      Arm(13, <<"r", "1", "3">>, "r13", RegisterDescriptor(13, <<"r", "1", "3">>)),
      Arm(14, <<"r", "1", "4">>, "r14", RegisterDescriptor(14, <<"r", "1", "4">>)),
      Arm(15, <<"r", "1", "5">>, "r15", RegisterDescriptor(15, <<"r", "1", "5">>)),
      Arm(49, <<"e", "f", "l", "a", "g", "s">>, "eflags", RegisterDescriptor(49, <<"e", "f", "l", "a", "g", "s">>)),
      Arm(50, <<"e", "s">>, "es", RegisterDescriptor(50, <<"e", "s">>)),
      Arm(51, <<"c", "s">>, "cs", RegisterDescriptor(51, <<"c", "s">>)),
      Arm(52, <<"s", "s">>, "ss", RegisterDescriptor(52, <<"s", "s">>)),
      Arm(53, <<"d", "s">>, "ds", RegisterDescriptor(53, <<"d", "s">>)),
      Arm(54, <<"f", "s">>, "fs", RegisterDescriptor(54, <<"f", "s">>)),
      Arm(55, <<"g", "s">>, "gs", RegisterDescriptor(55, <<"g", "s">>)),
      Arm(58, <<"f", "s", "_", "b", "a", "s", "e">>, "fs_base", RegisterDescriptor(58, <<"f", "s", "_", "b", "a", "s", "e">>)),
      Arm(59, <<"g", "s", "_", "b", "a", "s", "e">>, "gs_base", RegisterDescriptor(59, <<"g", "s", "_", "b", "a", "s", "e">>))
    >>

\* Register::descriptor of main.rs, by register.
descriptor(kind) ==
    CASE kind = "rax" -> RegisterDescriptor(0, <<"r", "a", "x">>)
      [] kind = "rbx" -> RegisterDescriptor(3, <<"r", "b", "x">>)
      [] kind = "rcx" -> RegisterDescriptor(2, <<"r", "c", "x">>)
      [] kind = "rdx" -> RegisterDescriptor(1, <<"r", "d", "x">>)
      [] kind = "rdi" -> RegisterDescriptor(5, <<"r", "d", "i">>)
      [] kind = "rsi" -> RegisterDescriptor(4, <<"r", "s", "i">>)
      [] kind = "rbp" -> RegisterDescriptor(6, <<"r", "b", "p">>)
      [] kind = "rsp" -> RegisterDescriptor(7, <<"r", "s", "p">>)
      [] kind = "r8" -> RegisterDescriptor(8, <<"r", "8">>)
      [] kind = "r9" -> RegisterDescriptor(9, <<"r", "9">>)
      [] kind = "r10" -> RegisterDescriptor(10, <<"r", "1", "0">>)
      [] kind = "r11" -> RegisterDescriptor(11, <<"r", "1", "1">>)
      [] kind = "r12" -> RegisterDescriptor(12, <<"r", "1", "2">>)
      [] kind = "r13" -> RegisterDescriptor(13, <<"r", "1", "3">>)
      [] kind = "r14" -> RegisterDescriptor(14, <<"r", "1", "4">>)
      [] kind = "r15" -> RegisterDescriptor(15, <<"r", "1", "5">>)
      [] kind = "ss" -> RegisterDescriptor(52, <<"s", "s">>)
      [] kind = "cs" -> RegisterDescriptor(51, <<"c", "s">>)
      [] kind = "ds" -> RegisterDescriptor(53, <<"d", "s">>)
      [] kind = "es" -> RegisterDescriptor(50, <<"e", "s">>)
      [] kind = "fs" -> RegisterDescriptor(54, <<"f", "s">>)
      [] kind = "gs" -> RegisterDescriptor(55, <<"g", "s">>)
      [] kind = "fs_base" -> RegisterDescriptor(58, <<"f", "s", "_", "b", "a", "s", "e">>)
      [] kind = "gs_base" -> RegisterDescriptor(59, <<"g", "s", "_", "b", "a", "s", "e">>)
      [] kind = "orig_rax" -> RegisterDescriptor(-1, <<"o", "r", "i", "g", "_", "r", "a", "x">>)
      [] kind = "rip" -> RegisterDescriptor(-1, <<"r", "i", "p">>)
      [] kind = "eflags" -> RegisterDescriptor(49, <<"e", "f", "l", "a", "g", "s">>)

\* Whether the pattern of an arm matches the selector.
Matches(arm, sel) ==
    IF sel.by = "Dwarf" THEN arm.dwarf = sel.dwarf ELSE arm.name = sel.name

\* The first arm that matches the selector; 0 when the match falls through to
\* `_ => unreachable!()`.
ArmOf(sel) ==
    IF \E i \in 1..Len(from_selector_arms) : Matches(from_selector_arms[i], sel)
    THEN CHOOSE i \in 1..Len(from_selector_arms) :
            /\ Matches(from_selector_arms[i], sel)
            /\ \A j \in 1..(i - 1) : ~Matches(from_selector_arms[j], sel)
    ELSE 0

\* The Register an arm builds; arm 0 is the panic of unreachable!().
RegisterOf(i) ==
    IF i = 0
    THEN [panic |-> TRUE, kind |-> "", descriptor |-> RegisterDescriptor(0, << >>)]
    ELSE [panic |-> FALSE, kind |-> from_selector_arms[i].kind,
          descriptor |-> from_selector_arms[i].descriptor]

\* A lookup that numbers rax, rcx, rdx, rbx in the order of their machine
\* encoding: it takes the numbers 1 and 2 for each other.
from_selector_encoding_order(sel) ==
    RegisterOf(ArmOf(IF sel.by = "Dwarf" /\ sel.dwarf \in {1, 2}
                     THEN Dwarf(3 - sel.dwarf) ELSE sel))

\* Register::from_selector
from_selector(sel) == RegisterOf(ArmOf(sel))

\* A write that leaves out setregs.
RegisterWriteNoSetregs(kind, value) ==
    IF ~Traceable
    THEN [panic |-> TRUE, regs |-> regs, calls |-> << <<"getregs", 0>> >>]
    ELSE [panic |-> FALSE, regs |-> regs, calls |-> << <<"getregs", 0>> >>]

\* A write that sets the field in a zeroed snapshot, not in the fetched one.
RegisterWriteFreshSnapshot(kind, value) ==
    IF ~Traceable
    THEN [panic |-> TRUE, regs |-> regs, calls |-> << <<"getregs", 0>> >>]
    ELSE [panic |-> FALSE,
          regs |-> [r \in RegisterKind |-> IF r = WriteField(kind) THEN value ELSE 0],
          calls |-> << <<"getregs", 0>>, <<"setregs", 0>> >>]

\* Register::read: the value, or a panic in getregs(pid).unwrap().
RegisterRead(kind) ==
    IF ~Traceable
    THEN [panic |-> TRUE, value |-> 0, calls |-> << <<"getregs", 0>> >>]
    ELSE [panic |-> FALSE, value |-> regs[ReadField(kind)],
          calls |-> << <<"getregs", 0>> >>]

\* Register::write: the register file after it, or a panic in
\* getregs(pid).unwrap().
RegisterWrite(kind, value) ==
    IF ~Traceable
    THEN [panic |-> TRUE, regs |-> regs, calls |-> << <<"getregs", 0>> >>]
    ELSE [panic |-> FALSE, regs |-> [regs EXCEPT ![WriteField(kind)] = value],
          calls |-> << <<"getregs", 0>>, <<"setregs", 0>> >>]

----------------------------------------------------------------------------
(* The Register methods, called by a client that looks a register up and     *)
(* reads and writes it: the method-level specification SpecReg.              *)

\* The selectors the client tries: every name the lookup knows, two it does
\* not, and every number from below the least to above the greatest it knows.
Selectors ==
    { Name(RegisterNames[r]) : r \in RegisterKind }
        \cup { Name(<<"f", "o", "o">>), Name(<<"R", "A", "X">>) }
        \cup { Dwarf(n) : n \in (-2)..60 }

\* The values the client writes: the least, one, a mid-range one and the
\* greatest the model's integers hold (the code moves the u64 unchanged).
RegValues == {0, 1, 42, 2147483647}

\* The register file the process has when the client gets it: every register
\* in use, the instruction pointer at the program's entry.
LiveRegs == { [r \in RegisterKind |-> IF r = "rip" THEN Entry ELSE 3] }

\* The process the client got may be stopped, running, or gone.
InitReg ==
    /\ pc = "api"
    /\ child \in {"stopped", "running", "exited"}
    /\ regs \in LiveRegs
    /\ mem0 = Program
    /\ mem = mem0
    /\ breakpoints = << >>
    /\ line = << >>
    /\ parsed = NoCmd
    /\ printed = NoOut
    /\ calls = << >>
    /\ stopAt = {}
    /\ lastExec = << >>
    /\ api = << >>
    /\ nops = 0

RegFrame == UNCHANGED <<child, mem, mem0, breakpoints, line, printed, stopAt, lastExec>>

\* let reg = Register::from_selector(sel);
\* api holds the selector, the register it gave and the value last read from it.
RegSelect ==
    /\ pc = "api" /\ nops < MaxApi
    /\ \E sel \in Selectors :
        LET r == from_selector(sel) IN
        /\ api' = << [sel |-> sel, reg |-> r, ret |-> 0] >>
        /\ pc' = IF r.panic THEN "panic" ELSE "api"
    /\ parsed' = NoCmd
    /\ calls' = << >>
    /\ nops' = nops + 1
    /\ UNCHANGED regs
    /\ RegFrame

\* let v = reg.read(pid);
RegRead ==
    /\ pc = "api" /\ nops < MaxApi
    /\ api # << >>
    /\ LET k == api[1].reg.kind
           r == RegisterRead(k)
       IN
       /\ api' = << [api[1] EXCEPT !.ret = r.value] >>
       /\ parsed' = Cmd("Register", "Read", k, 0)
       /\ calls' = r.calls
       /\ pc' = IF r.panic THEN "panic" ELSE "api"
    /\ nops' = nops + 1
    /\ UNCHANGED regs
    /\ RegFrame

\* reg.write(pid, v);
RegWrite ==
    /\ pc = "api" /\ nops < MaxApi
    /\ api # << >>
    /\ \E v \in RegValues :
        LET k == api[1].reg.kind
            w == RegisterWrite(k, v)
        IN
        /\ regs' = w.regs
        /\ parsed' = Cmd("Register", "Write", k, v)
        /\ calls' = w.calls
        /\ pc' = IF w.panic THEN "panic" ELSE "api"
    /\ nops' = nops + 1
    /\ UNCHANGED api
    /\ RegFrame

NextReg == RegSelect \/ RegRead \/ RegWrite

SpecReg == InitReg /\ [][NextReg]_vars

----------------------------------------------------------------------------
(* Claims about Register, checked under SpecReg *)

\* C11: register write/read round trip. With the traced process stopped, a
\* write of v to a register followed by a read of the same register returns v,
\* for every register kind.
C11_WriteReadRoundTrip ==
    [][(/\ pc = "api" /\ child = "stopped"
        /\ parsed.sub = "Write"
        /\ parsed'.sub = "Read")
          => (/\ pc' = "api"
              /\ parsed'.reg = parsed.reg
              /\ api'[1].ret = parsed.num)]_vars

\* The flags register has been written the greatest value and read back.
C11_Witness ==
    /\ pc = "api"
    /\ parsed = Cmd("Register", "Read", "eflags", 0)
    /\ api # << >>
    /\ api[1].ret = 2147483647
    /\ regs["eflags"] = 2147483647

\* The numbers the claim speaks of: those of the registers that have a number
\* of their own.
CanonicalDwarf == (0..15) \cup (49..55) \cup {58, 59}

\* C12: name/number lookup agreement. For every register that has both a name
\* and a number of its own (0-15, 49-55, 58, 59), the lookup by the number and
\* the lookup by the name give the same register, and its descriptor carries
\* exactly that name and that number.
C12_NameNumberAgree ==
    api # << >> =>
        LET sel == api[1].sel
            reg == api[1].reg
        IN
        /\ (sel.by = "Dwarf" /\ sel.dwarf \in CanonicalDwarf)
              => (/\ ~reg.panic
                  /\ reg.descriptor.dwarf_no = sel.dwarf
                  /\ reg.descriptor = descriptor(reg.kind)
                  /\ from_selector(Name(reg.descriptor.name)) = reg)
        /\ (sel.by = "Name" /\ ~reg.panic /\ reg.descriptor.dwarf_no \in CanonicalDwarf)
              => (/\ reg.descriptor.name = sel.name
                  /\ reg.descriptor = descriptor(reg.kind)
                  /\ from_selector(Dwarf(reg.descriptor.dwarf_no)) = reg)

\* The lookup by the number 1 has given the register named rdx.
C12_Witness ==
    /\ api # << >>
    /\ api[1].sel = Dwarf(1)
    /\ ~api[1].reg.panic
    /\ api[1].reg.kind = "rdx"
    /\ api[1].reg.descriptor.name = <<"r", "d", "x">>

\* C13: the pseudo-registers are not addressable by number. A lookup by the
\* number rip and orig_rax share (-1) fails; it resolves to neither register.
C13_PseudoNotByNumber ==
    (api # << >> /\ api[1].sel = Dwarf(-1))
        => (api[1].reg.panic /\ api[1].reg.kind \notin {"rip", "orig_rax"})

\* C20: a failing register snapshot is a recoverable error. When getregs or
\* setregs fails because the process is not stopped or is gone, read and write
\* return to the caller without a panic, and no register has changed.
C20_SnapshotFailureRecoverable ==
    [][(/\ pc = "api" /\ child # "stopped"
        /\ parsed'.sub \in {"Read", "Write"})
          => (pc' = "api" /\ regs' = regs)]_vars

----------------------------------------------------------------------------
(* Debugger (src/src/debugger.rs, src/src/main.rs) *)

\* What handling one line does: whether it panicked, whether it resumed the
\* traced process, the registers, memory and table after it, the tracing calls
\* it issued, the command it parsed and what it printed.
Eff(panic, cont, r, m, b, c, p, o) ==
    [panic |-> panic, cont |-> cont, regs |-> r, mem |-> m, breakpoints |-> b,
     calls |-> c, parsed |-> p, printed |-> o]

Panicked(c, p) == Eff(TRUE, FALSE, regs, mem, breakpoints, c, p, NoOut)
Printed(p, o) == Eff(FALSE, FALSE, regs, mem, breakpoints, << >>, p, o)

\* Command::Continue: ptrace::cont, then waitpid; both results are dropped.
Continue ==
    Eff(FALSE, TRUE, regs, mem, breakpoints,
        << <<"cont", 0>>, <<"wait", 0>> >>, Cmd("Continue", "", "", 0), NoOut)

\* Debugger::handle_input of debugger.rs
handle_input(l) ==
    LET c == parse_cmd(l) IN
    CASE c.out = "Continue" -> Continue
      [] c.out = "Break" ->
            LET b == parse_bkpt_cmd(c.rem) IN
            IF ~b.ok THEN Panicked(<< >>, Cmd("Break", "", "", 0))
            ELSE CASE b.out.sub = "List" -> Printed(b.out, Out("List breakpoints", 0))
                   [] b.out.sub = "Set" -> Printed(b.out, Out("Set breakpoint", 0))
                   [] b.out.sub = "Unset" ->
                        Printed(b.out, Out("Unset breakpoint: {num}", b.out.num))
                   [] OTHER -> Printed(b.out, Out("Unknown breakpoint command", 0))
      [] c.out = "Register" ->
            LET r == parse_reg_cmd(c.rem) IN
            IF ~r.ok THEN Panicked(<< >>, Cmd("Register", "", "", 0))
            ELSE CASE r.out.sub = "Read" ->
                        LET v == RegisterRead(r.out.reg) IN
                        IF v.panic THEN Panicked(v.calls, r.out)
                        ELSE Eff(FALSE, FALSE, regs, mem, breakpoints, v.calls,
                                 r.out, Out("{value:0x}", v.value))
                   [] r.out.sub = "Write" ->
                        LET w == RegisterWrite(r.out.reg, r.out.num) IN
                        IF w.panic THEN Panicked(w.calls, r.out)
                        ELSE Eff(FALSE, FALSE, w.regs, mem, breakpoints, w.calls,
                                 r.out, NoOut)
                   [] OTHER -> Printed(r.out, Out("Unknown register command", 0))
      [] OTHER -> Printed(Cmd("Unknown", "", "", 0), Out("Unknown command", 0))

\* Debugger::set_breakpoint: a new Breakpoint is enabled and inserted under
\* its address, replacing the entry that may be there.
set_breakpoint(addr, local) ==
    LET r == Enable(BreakpointNew(addr), mem, local)
        p == Cmd("Break", "Set", "", addr)
    IN
    IF r.panic THEN Panicked(r.calls, p)
    ELSE Eff(FALSE, FALSE, regs, r.mem,
             [x \in DOMAIN breakpoints \cup {addr} |->
                 IF x = addr THEN r.bp ELSE breakpoints[x]],
             r.calls, p, Out("Breakpoint set at {addr}", addr))

\* args.next().unwrap().strip_prefix("0x").unwrap(), then
\* isize::from_str_radix(a, 16).unwrap(): the address, or ok = FALSE for a
\* panic in one of the three unwrap()s.
ParseAddress(hasArg, arg) ==
    IF ~hasArg \/ Len(arg) < 2 \/ Take(arg, 2) # <<"0", "x">>
    THEN [ok |-> FALSE, addr |-> 0]
    ELSE
        LET a == Drop(arg, 2)
            signed == a # << >> /\ a[1] \in {"+", "-"}
            digits == IF signed THEN Tail(a) ELSE a
        IN
        IF digits = << >> \/ \E i \in 1..Len(digits) : ~IsHexDigit(digits[i])
        THEN [ok |-> FALSE, addr |-> 0]
        ELSE [ok |-> TRUE,
              addr |-> IF signed /\ a[1] = "-" THEN 0 - Hex(digits) ELSE Hex(digits)]

\* Debugger::handle_input of main.rs: the line is split at single spaces.
handle_input_main(l, local) ==
    LET i == IndexOfSpace(l)
        first == IF i = 0 THEN l ELSE Take(l, i - 1)
        rest == IF i = 0 THEN << >> ELSE Drop(l, i)
        j == IndexOfSpace(rest)
        arg == IF j = 0 THEN rest ELSE Take(rest, j - 1)
        c == CommandFromMain(first)
    IN
    CASE c = "Continue" -> Continue
      [] c = "Break" ->
            LET a == ParseAddress(i # 0, arg) IN
            IF ~a.ok THEN Panicked(<< >>, Cmd("Break", "", "", 0))
            ELSE set_breakpoint(a.addr, local)
      [] OTHER -> Printed(Cmd("Unknown", "", "", 0), Out("Unknown command", 0))

\* One line read and handled (Debugger::run, Ok(line) => self.handle_input(line)).
\* A continue of a stopped process leaves the debugger in waitpid; a process
\* that is gone makes cont and waitpid fail at once.
Dispatch(l, e) ==
    /\ line' = l
    /\ parsed' = e.parsed
    /\ printed' = e.printed
    /\ calls' = e.calls
    /\ regs' = e.regs
    /\ mem' = e.mem
    /\ breakpoints' = e.breakpoints
    /\ pc' = IF e.panic THEN "panic"
             ELSE IF e.cont /\ child = "stopped" THEN "cont_wait"
             ELSE "prompt"
    /\ child' = IF e.cont /\ child = "stopped" THEN "running" ELSE child
    /\ nops' = nops + 1
    /\ UNCHANGED <<mem0, stopAt, lastExec, api>>

\* The command loop with the dispatcher of debugger.rs.
HandleInput ==
    /\ pc = "prompt" /\ nops < MaxOps
    /\ \E l \in Lines : Dispatch(l, handle_input(l))

\* The command loop with the dispatcher of main.rs.
HandleInputMain ==
    /\ pc = "prompt" /\ nops < MaxOps
    /\ \E l \in Lines, local \in LocalAddrs : Dispatch(l, handle_input_main(l, local))

\* Err(ReadlineError::Interrupted) and Err(ReadlineError::Eof): break.
LoopBreak ==
    /\ pc = "prompt"
    /\ pc' = "exit"
    /\ UNCHANGED <<child, regs, mem, mem0, breakpoints, line, parsed, printed,
                   calls, stopAt, lastExec, api, nops>>

\* Err(e) => println!("error: {:?}", e): the loop goes on.
ReadError ==
    /\ pc = "prompt"
    /\ printed' = Out("error: {:?}", 0)
    /\ UNCHANGED <<pc, child, regs, mem, mem0, breakpoints, line, parsed,
                   calls, stopAt, lastExec, api, nops>>

\* A wait that returns for a stop only, not for the exit of the process.
WaitReturnsForStopOnly ==
    /\ pc \in {"run_wait", "cont_wait"}
    /\ child = "stopped"
    /\ pc' = "prompt"
    /\ UNCHANGED <<child, regs, mem, mem0, breakpoints, line, parsed, printed,
                   calls, stopAt, lastExec, api, nops>>

\* Debugger::run before the loop: waitpid returns once the child has changed
\* state; and the waitpid that follows ptrace::cont.
WaitReturns ==
    /\ pc \in {"run_wait", "cont_wait"}
    /\ child \in {"stopped", "exited", "exec_failed"}
    /\ pc' = "prompt"
    /\ UNCHANGED <<child, regs, mem, mem0, breakpoints, line, parsed, printed,
                   calls, stopAt, lastExec, api, nops>>

----------------------------------------------------------------------------
(* The traced process *)

\* match unsafe { fork() }: Err(_) => return, or the parent goes on to
\* Debugger::new(child) and dbg.run() while the child starts.
Fork ==
    /\ pc = "main"
    /\ \/ pc' = "exit" /\ child' = child
       \/ pc' = "run_wait" /\ child' = "starting"
    /\ UNCHANGED <<regs, mem, mem0, breakpoints, line, parsed, printed,
                   calls, stopAt, lastExec, api, nops>>

\* The child of main's fork: traceme and execvp give the exec trace-stop at
\* the program's entry; a failed execvp (or a failed personality call) makes
\* the child leave main; a failed traceme is printed and execvp goes ahead,
\* the program then runs without a tracer.
ChildStart ==
    /\ child = "starting"
    /\ \/ child' = "stopped"
       \/ child' = "exec_failed"
       \/ child' = "untraced"
    /\ UNCHANGED <<pc, regs, mem, mem0, breakpoints, line, parsed, printed,
                   calls, stopAt, lastExec, api, nops>>

\* The resumed process executes the instruction at rip.  The trap opcode
\* stops it with rip past the trap; a byte that is not the program's own may
\* fault (a signal stop at that instruction) or run; past the last
\* instruction the program exits.
ChildStep ==
    /\ child = "running"
    /\ LET a == regs["rip"] IN
       IF a \notin Addrs
       THEN /\ child' = "exited"
            /\ UNCHANGED <<regs, stopAt, lastExec>>
       ELSE /\ lastExec' = <<a, mem[a]>>
            /\ IF mem[a] = BKPT_OPCODE
               THEN /\ child' = "stopped"
                    /\ stopAt' = IF a \in DOMAIN breakpoints /\ breakpoints[a].enabled
                                  THEN {a} ELSE {}
                    /\ regs' = [regs EXCEPT !["rip"] = a + 1]
               ELSE /\ stopAt' = {}
                    /\ \/ /\ child' = "running"
                          /\ regs' = [regs EXCEPT !["rip"] = a + 1]
                       \/ /\ mem[a] # mem0[a]
                          /\ child' = "stopped"
                          /\ regs' = regs
    /\ UNCHANGED <<pc, mem, mem0, breakpoints, line, parsed, printed, calls, api, nops>>

\* The program run without a tracer goes on by itself until it exits.
UntracedExit ==
    /\ child = "untraced"
    /\ child' = "exited"
    /\ UNCHANGED <<pc, regs, mem, mem0, breakpoints, line, parsed, printed,
                   calls, stopAt, lastExec, api, nops>>

Init ==
    /\ pc = "main"
    /\ child = "unborn"
    /\ regs = InitRegs
    /\ mem0 = Program
    /\ mem = mem0
    /\ breakpoints = << >>
    /\ line = << >>
    /\ parsed = NoCmd
    /\ printed = NoOut
    /\ calls = << >>
    /\ stopAt = {}
    /\ lastExec = << >>
    /\ api = << >>
    /\ nops = 0

Next ==
    \/ HandleInput
    \/ HandleInputMain
    \/ LoopBreak
    \/ ReadError
    \/ WaitReturns
    \/ Fork
    \/ ChildStart
    \/ UntracedExit
    \/ ChildStep

Spec == Init /\ [][Next]_vars

----------------------------------------------------------------------------
(* Claims about the debugger, checked under Spec *)

\* A command was read and dispatched in this step.
Dispatched == pc = "prompt" /\ nops' = nops + 1

\* The traced process is stopped right after executing the trap byte of the
\* enabled breakpoint at a.
HitAt(a) ==
    /\ child = "stopped"
    /\ stopAt = {a}
    /\ a \in DOMAIN breakpoints
    /\ breakpoints[a].enabled
    /\ regs["rip"] = a + 1

\* The calls cs hold the requests `names` in that order.
InOrder(cs, names) ==
    \E f \in [1..Len(names) -> 1..Len(cs)] :
        /\ \A i \in 1..(Len(names) - 1) : f[i] < f[i + 1]
        /\ \A i \in 1..Len(names) : cs[f[i]][1] = names[i]

\* C2: a continue issued while the process is stopped at an enabled breakpoint
\* rewinds rip (a register write), disables the breakpoint (a poke), single-steps,
\* re-enables it (a poke), and only then issues the real ptrace continue.
C2_ContinueProtocolOrder ==
    [][(Dispatched /\ parsed'.cmd = "Continue" /\ \E a \in Addrs : HitAt(a))
          => InOrder(calls', <<"setregs", "poke", "step", "poke", "cont">>)]_vars

\* C3: a breakpoint survives being hit. After a stop on the trap byte of the
\* enabled breakpoint at A and a continue, the first instruction the process
\* executes is the original one at A, and the breakpoint stays enabled with its
\* saved byte.
C3_BreakpointSurvivesHit ==
    [][\A a \in Addrs :
          (/\ child = "running"
           /\ stopAt = {a}
           /\ a \in DOMAIN breakpoints
           /\ breakpoints[a].enabled
           /\ regs["rip"] = a + 1
           /\ vars' # vars)
          => (/\ lastExec' = <<a, mem0[a]>>
              /\ breakpoints'[a].enabled
              /\ breakpoints'[a].old_instruction = breakpoints[a].old_instruction)]_vars

\* C5: setting a breakpoint at a Location that is already a key of the table is
\* rejected: the entry and the traced memory stay as they were, and no
\* breakpoint is reported set.
C5_DuplicateSetRejected ==
    [][(/\ Dispatched
        /\ parsed'.cmd = "Break" /\ parsed'.sub = "Set"
        /\ parsed'.num \in DOMAIN breakpoints)
          => (/\ breakpoints' = breakpoints
              /\ mem' = mem
              /\ printed'.text # "Breakpoint set at {addr}")]_vars

\* C6: no command failure terminates the session: handle_input returns to the
\* command loop for every line and every outcome of the tracing calls.
C6_NoCommandEndsSession == pc # "panic"

\* C7: Exited is terminal. Once the wait after a continue has reported the
\* process gone, it never is stopped or running again, and every later
\* breakpoint or register command is turned down without a tracing call
\* against the dead process.
C7_ExitedIsTerminal ==
    [][(child = "exited" /\ lastExec # << >>)
          => (/\ child' = "exited"
              /\ (Dispatched /\ parsed'.cmd \in {"Break", "Register"})
                    => (calls' = << >> /\ pc' = "prompt"))]_vars

\* C8: the debugger and the traced process never run at once on shared state.
\* No command is dispatched while the process is starting or running, and a
\* memory peek/poke or register get/set is issued only in a trace-stop.
C8_TracingOnlyInTraceStop ==
    [][Dispatched
          => (/\ child \notin {"starting", "running"}
              /\ (\E i \in 1..Len(calls') :
                      calls'[i][1] \in {"peek", "poke", "getregs", "setregs"})
                    => child = "stopped")]_vars

\* The unset command for breakpoint number 1, as the grammar and as the short
\* command token spell it.
UnsetLines == { <<"b", "r", "e", "a", "k", "p", "o", "i", "n", "t", " ", "u", "n", "s", "e", "t", " ", "1">>,
                <<"b", " ", "u", "n", "s", "e", "t", " ", "1">> }

\* C10: unset restores before forgetting. After `breakpoint unset 1` with at
\* least two breakpoints in the table (so that one is numbered 1), the table
\* holds one breakpoint less.
C10_UnsetRemoves ==
    [][(/\ Dispatched
        /\ line' \in UnsetLines
        /\ Cardinality(DOMAIN breakpoints) >= 2)
          => Cardinality(DOMAIN breakpoints') = Cardinality(DOMAIN breakpoints) - 1]_vars

\* Register commands that name no register the lookup knows.
UnknownRegisterLines == { <<"r", " ", "r", "e", "a", "d", " ", "f", "o", "o">> }

\* C14: an unknown register selector is a recoverable error. A register
\* command whose name matches no defined register performs no register read or
\* write on the traced process, and the session goes on to the next prompt.
C14_UnknownSelectorRecoverable ==
    [][(Dispatched /\ line' \in UnknownRegisterLines)
          => (pc' = "prompt" /\ calls' = << >> /\ regs' = regs)]_vars

\* `break a` lines, each with the number its hexadecimal digits denote.
TypedBreaks ==
    { [l |-> <<"b", "r", "e", "a", "k", " ", "0", "x", "0">>, a |-> 0],
      [l |-> <<"b", "r", "e", "a", "k", " ", "0", "x", "1">>, a |-> 1],
      [l |-> <<"b", "r", "e", "a", "k", " ", "0", "x", "2">>, a |-> 2],
      [l |-> <<"b", "r", "e", "a", "k", " ", "0", "x", "a">>, a |-> 10] }

\* C15: for every 0x-prefixed hexadecimal address a, the line `break a` is
\* parsed as a breakpoint Set command that carries Location::Address(a), a
\* being the number the typed digits denote.
C15_BreakParsesToSetAddress ==
    [][\A t \in TypedBreaks :
          (Dispatched /\ line' = t.l) => parsed' = Cmd("Break", "Set", "", t.a)]_vars

\* Register command lines, each with the command the grammar gives it.
RegisterGrammar ==
    { [l |-> <<"r", " ", "r", "e", "a", "d", " ", "r", "a", "x">>, c |-> Cmd("Register", "Read", "rax", 0)],
      [l |-> <<"r", " ", "r", " ", "r", "i", "p">>, c |-> Cmd("Register", "Read", "rip", 0)],
      [l |-> <<"r", " ", "w", " ", "r", "a", "x", " ", "5">>, c |-> Cmd("Register", "Write", "rax", 5)],
      [l |-> <<"r", " ", "w", " ", "r", "i", "p", " ", "1">>, c |-> Cmd("Register", "Write", "rip", 1)],
      [l |-> <<"r", " ", "w", "r", "i", "t", "e", " ", "r", "a", "x", " ", "5">>, c |-> Cmd("Register", "Write", "rax", 5)],
      [l |-> <<"r", "e", "g", "i", "s", "t", "e", "r", " ", "w", "r", "i", "t", "e", " ", "r", "a", "x", " ", "4", "2">>, c |-> Cmd("Register", "Write", "rax", 42)] }

\* C16: the register command grammar. `register read n` and `register r n`
\* parse to a Read of register n; `register write n v` and `register w n v`
\* parse to a Write of register n with the value v.
C16_RegisterGrammar ==
    [][\A t \in RegisterGrammar :
          (Dispatched /\ line' = t.l /\ parsed'.cmd = "Register") => parsed' = t.c]_vars

\* Lines with malformed arguments: a register write without its value, a
\* breakpoint command without its argument, an address without the 0x prefix.
MalformedLines == { <<"r", " ", "w", " ", "r", "b", "x">>, <<"b">>, <<"b", "r", "e", "a", "k", " ", "1", "2">> }

\* C17: malformed arguments are reported and the session reprompts: such a line
\* causes no tracing call and no change of the breakpoint table, and leaves the
\* command loop running.
C17_MalformedReprompts ==
    [][(Dispatched /\ line' \in MalformedLines)
          => (pc' = "prompt" /\ calls' = << >> /\ breakpoints' = breakpoints)]_vars

\* Lines the grammar does not know: an unknown first token, and a register
\* line with an unknown sub-operation.
UnknownLines == { <<"x", "y", "z">>, <<"r", " ", "f", "o", "o">> }

\* C18: unknown commands are harmless. A line whose first token is no command
\* parses to Command::Unknown and a register or breakpoint line whose
\* sub-operation is not recognized to the Unknown of its category; the
\* controller prints the message, issues no tracing call, leaves the
\* breakpoint table unchanged, and the session stays active.
C18_UnknownHarmless ==
    [][(Dispatched /\ line' \in UnknownLines)
          => (/\ pc' = "prompt"
              /\ calls' = << >>
              /\ breakpoints' = breakpoints
              /\ (parsed'.cmd = "Unknown" \/ parsed'.sub = "Unknown")
              /\ printed'.text \in {"Unknown command", "Unknown register command",
                                    "Unknown breakpoint command"})]_vars

\* The set command for the address 2, as the grammar and as the short command
\* token spell it.
SetLines == { <<"b", "r", "e", "a", "k", "p", "o", "i", "n", "t", " ", "s", "e", "t", " ", "0", "x", "2">>, <<"b", " ", "s", "e", "t", " ", "0", "x", "2">> }

\* C19: `breakpoint set <addr>` sets a breakpoint at the typed address. After
\* the line is handled with the process stopped and no entry for the address
\* in the table, the table holds an entry keyed by that address, for that
\* address.
C19_SetAtTypedAddress ==
    [][(/\ Dispatched
        /\ line' \in SetLines
        /\ child = "stopped"
        /\ 2 \notin DOMAIN breakpoints)
          => (2 \in DOMAIN breakpoints' /\ breakpoints'[2].addr = 2)]_vars

----------------------------------------------------------------------------
(* Further claims about Breakpoint, checked under SpecBp *)

\* The memory read of this call of enable or disable failed: the peek is the
\* only tracing call it issued.
PatchReadFailed ==
    /\ pc = "api"
    /\ Len(api') = Len(api) + 1
    /\ api'[Len(api')][1] \in {"enable", "disable"}
    /\ Len(calls') = 1

\* C21: no partial enable/disable. When the memory read or write inside enable
\* or disable fails, the call is aborted with an error it reports to its
\* caller, and the breakpoint's enabled flag and saved byte are what they were.
C21_NoPartialPatch ==
    [][PatchReadFailed => (pc' = "api" /\ breakpoints' = breakpoints)]_vars

----------------------------------------------------------------------------
(* Further claims about the debugger, checked under Spec *)

\* C22: guaranteed cleanup on exit. On every path that leaves the command loop
\* with the traced process stopped under trace, a cleanup request on the
\* process (detach, or kill) is issued before the debugger terminates.
C22_CleanupOnExit ==
    [][(pc = "prompt" /\ pc' = "exit" /\ child = "stopped")
          => \E i \in 1..Len(calls') : calls'[i][1] \in {"detach", "kill"}]_vars

\* C23: a launch failure is fatal before any session exists. A failed fork,
\* traceme or exec never leaves an untraced target running, and the parent
\* does not enter the command loop for a child whose launch failed.
C23_LaunchFailureFatal ==
    /\ child # "untraced"
    /\ child = "exec_failed" => pc \notin {"prompt", "cont_wait"}

----------------------------------------------------------------------------
(* Claims about the patch, checked under SpecBp *)

\* C24: breakpoint/memory consistency. In every reachable state each
\* breakpoint of the table that is marked enabled has the trap byte 0xCC as the
\* low byte of the word at its address, and its saved byte is the byte the
\* program had there before any breakpoint was placed.
C24_EnabledMeansPatched ==
    \A a \in DOMAIN breakpoints :
        breakpoints[a].enabled
            => (/\ mem[a] = BKPT_OPCODE
                /\ breakpoints[a].old_instruction = WordOf(mem0[a]))

\* C25: enable patches exactly one byte. After enable on a disabled breakpoint
\* whose target word is w, the word at the address is w with its low byte
\* replaced by 0xCC, the saved byte is the low byte of w, the breakpoint is
\* enabled, and no other byte of the traced memory is written.
C25_EnablePatchesOneByte ==
    [][\A a \in ApiAddrs :
          (/\ pc = "api"
           /\ Len(api') = Len(api) + 1
           /\ api'[Len(api')] = <<"enable", a>>
           /\ ~breakpoints[a].enabled
           /\ Mapped(a))
          => LET w == PeekData(mem, a) IN
             /\ PeekData(mem', a) = [w EXCEPT ![1] = BKPT_OPCODE]
             /\ breakpoints'[a].old_instruction = WordOf(w[1])
             /\ breakpoints'[a].enabled
             /\ \A x \in Addrs : (x < a \/ x >= a + WordBytes) => mem'[x] = mem[x]]_vars

----------------------------------------------------------------------------
(* Further claims about Register, checked under SpecReg *)

\* C26: register access frame. Register::read changes no register of the
\* traced process (it commits nothing back), and Register::write on register r
\* changes only r: each of the other 26 registers keeps the value it had.
C26_RegisterAccessFrame ==
    [][(pc = "api" /\ nops' = nops + 1)
          => (/\ parsed'.sub = "Read"
                    => (/\ regs' = regs
                        /\ \A i \in 1..Len(calls') : calls'[i][1] # "setregs")
              /\ parsed'.sub = "Write"
                    => \A o \in RegisterKind \ {parsed'.reg} : regs'[o] = regs[o])]_vars

\* rax has been written while the other registers were in use; rbx still has
\* its value.
C26_Witness ==
    /\ pc = "api"
    /\ parsed = Cmd("Register", "Write", "rax", 42)
    /\ regs["rax"] = 42
    /\ regs["rbx"] = 3
    /\ calls = << <<"getregs", 0>>, <<"setregs", 0>> >>

\* `unset n` lines and register write lines, each with the number typed.
TypedUnsets ==
    { [l |-> <<"b", " ", "u", "n", "s", "e", "t", " ", "1">>, n |-> 1],
      [l |-> <<"b", " ", "u", "n", "s", "e", "t", " ", "3", "0", "0">>, n |-> 300] }

TypedWrites ==
    { [l |-> <<"r", " ", "w", " ", "r", "a", "x", " ", "5">>, reg |-> "rax", v |-> 5],
      [l |-> <<"r", " ", "w", " ", "r", "i", "p", " ", "1">>, reg |-> "rip", v |-> 1] }

\* C28: numeric arguments are carried without loss. The breakpoint number of
\* the Unset command parsed from `unset n` equals n, and the value a register
\* write stores equals the decimal v typed; no accepted number is truncated or
\* wrapped.
C28_NumbersCarried ==
    [][/\ \A t \in TypedUnsets :
            (Dispatched /\ line' = t.l /\ parsed'.sub = "Unset") => parsed'.num = t.n
       /\ \A t \in TypedWrites :
            (Dispatched /\ line' = t.l /\ parsed'.sub = "Write" /\ pc' = "prompt")
                => regs'[t.reg] = t.v]_vars

----------------------------------------------------------------------------
(* The session under fair scheduling: the specification SpecLive.  The kernel *)
(* runs a resumed process, and wakes the debugger's waitpid once the process *)
(* has changed state.                                                         *)

\* The lines typed in these sessions: the three spellings of continue, a
\* breakpoint, a write of the instruction pointer, and an unknown command.
LiveLines ==
    { <<"c">>, <<"c", "o", "n", "t">>, <<"c", "o", "n", "t", "i", "n", "u", "e">>,
      <<"b", "r", "e", "a", "k", " ", "0", "x", "1">>,
      <<"r", " ", "w", " ", "r", "i", "p", " ", "1">>,
      <<"x", "y", "z">> }

HandleInputLive ==
    /\ pc = "prompt" /\ nops < MaxOps
    /\ \E l \in LiveLines : Dispatch(l, handle_input(l))

HandleInputMainLive ==
    /\ pc = "prompt" /\ nops < MaxOps
    /\ \E l \in LiveLines, local \in LocalAddrs : Dispatch(l, handle_input_main(l, local))

NextLive ==
    \/ HandleInputLive
    \/ HandleInputMainLive
    \/ LoopBreak
    \/ ReadError
    \/ WaitReturns
    \/ Fork
    \/ ChildStart
    \/ UntracedExit
    \/ ChildStep

SpecLive ==
    /\ Init
    /\ [][NextLive]_vars
    /\ WF_vars(WaitReturns)
    /\ WF_vars(ChildStep)

\* C27: continue eventually returns to the prompt. Once the traced process has
\* been resumed, the blocking wait returns and the command loop prompts again;
\* a continue issued when the process is not stopped (it has exited already)
\* is back at the prompt at once.
C27_ContinueReturns ==
    /\ [](pc = "cont_wait" => <>(pc = "prompt"))
    /\ [][(Dispatched /\ parsed'.cmd = "Continue" /\ child # "stopped")
             => pc' = "prompt"]_vars

\* A continue has resumed the process, the process has run into a trap, and
\* the prompt is back.
C27_Witness ==
    /\ pc = "prompt"
    /\ parsed.cmd = "Continue"
    /\ child = "stopped"
    /\ lastExec # << >>
    /\ lastExec[2] = BKPT_OPCODE

====
